---- MODULE Spec2Model ----
(***************************************************************************)
(* Model of the AT command engine (OS version): at_do_cmd, at_do_work,     *)
(* at_process, urc_recv_process and resp_recv_process.                     *)
(*                                                                         *)
(* Characters are one-element strings; CR, LF and NUL stand for '\r',      *)
(* '\n' and '\0'.  A C buffer is the sequence of the bytes stored below    *)
(* its fill count; the terminator the code writes at buf[cnt] is recorded  *)
(* through the highest index written.  Time is abstracted: a timer whose   *)
(* period has elapsed is a boolean that the passage of time sets.          *)
(***************************************************************************)
EXTENDS Integers, Sequences, FiniteSets, TLC

NULL == "NULL"
CR == "CR"
LF == "LF"
NUL == "NUL"

\* ---------------------------------------------------------------- bounds
MaxFeed == 5
UrcBufSize == 5
MaxCalls == 2
MaxChunk == 2

\* ------------------------------------------------------- C string helpers
Max(a, b) == IF a >= b THEN a ELSE b

\* Index of the first NUL of s, 0 if none.
RECURSIVE FirstNul(_, _)
FirstNul(s, i) ==
    IF i > Len(s) THEN 0
    ELSE IF s[i] = NUL THEN i ELSE FirstNul(s, i + 1)

\* What a str* function sees of a buffer: the bytes before the first NUL.
CStr(s) ==
    LET n == FirstNul(s, 1) IN IF n = 0 THEN s ELSE SubSeq(s, 1, n - 1)

\* strstr(hay, needle) != NULL, both already C strings.
StrStr(hay, needle) ==
    \E i \in 1..(Len(hay) + 1) :
        /\ i + Len(needle) - 1 <= Len(hay)
        /\ SubSeq(hay, i, i + Len(needle) - 1) = needle

\* strchr(marks, ch) != NULL: ch is one of the characters of the string, or
\* ch is '\0' (strchr then returns the address of the string's terminator).
StrChr(marks, ch) == ch \in marks \/ ch = NUL

\* ------------------------------------------------------------ URC table
SPEC_URC_END_MARKS == {":", ",", CR, LF}

urc_tbl ==
    << [prefix |-> <<"+", "C">>, end_mark |-> {CR, LF}],
       [prefix |-> <<"C", ":">>, end_mark |-> {","}],
       [prefix |-> <<",">>, end_mark |-> {LF}] >>

urc_tbl_count == Len(urc_tbl)

UrcAlphabet == {"+", "C", ":", ",", CR, LF, NUL}

\* at->urc_item == NULL; a matched entry is its index in the table.
NO_ITEM == 0

\* find_urc_item: index of the first entry whose prefix occurs in the text.
RECURSIVE find_from(_, _)
find_from(text, i) ==
    IF i > urc_tbl_count THEN NO_ITEM
    ELSE IF StrStr(text, urc_tbl[i].prefix) THEN i
    ELSE find_from(text, i + 1)

find_urc_item_AnySize(urc_buf, size) == find_from(CStr(urc_buf), 1)
find_urc_item_Skip(urc_buf, size) ==
    IF size < 2 THEN NO_ITEM ELSE find_from(CStr(urc_buf), 2)
find_urc_item(urc_buf, size) ==
    IF size < 2 THEN NO_ITEM ELSE find_from(CStr(urc_buf), 1)

\* urc_handler_entry: the handler of the matched entry is called with the
\* buffer (as a C string) and its size.
urc_handler_entry(u, item) ==
    Append(u.calls, [item |-> item, urcline |-> CStr(u.buf), size |-> u.cnt])

urc_timeout_reset_Never(u, istimeout) == u

\* The idle-timeout block at the head of urc_recv_process.
urc_timeout_reset(u, istimeout) ==
    IF u.cnt > 0 /\ istimeout
    THEN [u EXCEPT !.wmax = Max(@, u.cnt), !.cnt = 0, !.item = NO_ITEM,
                   !.buf = <<>>, !.tmo = @ + 1,
                   !.logs = IF u.cnt > 2 THEN @ + 1 ELSE @]
    ELSE u

\* urc_recv_byte that logs an unrecognized line whatever at->busy is.
urc_recv_byte_LogsWhenBusy(u, ch, busy) ==
    LET stored == [u EXCEPT !.buf = Append(SubSeq(u.buf, 1, u.cnt), ch),
                            !.wmax = Max(@, u.cnt),
                            !.cnt = @ + 1]
    IN  IF StrChr(SPEC_URC_END_MARKS, ch)
        THEN LET term == [stored EXCEPT !.wmax = Max(@, stored.cnt)]
                 item == IF term.item = NO_ITEM
                         THEN find_urc_item(term.buf, term.cnt)
                         ELSE term.item
                 found == [term EXCEPT !.item = item]
             IN  IF item # NO_ITEM
                 THEN IF StrChr(urc_tbl[item].end_mark, ch)
                      THEN [found EXCEPT
                                !.calls = urc_handler_entry(found, item),
                                !.cnt = 0, !.item = NO_ITEM, !.buf = <<>>]
                      ELSE found
                 ELSE IF ch = CR \/ ch = LF \/ ch = NUL
                      THEN [found EXCEPT
                                !.logs = IF found.cnt > 2
                                         THEN @ + 1 ELSE @,
                                !.cnt = 0, !.buf = <<>>]
                      ELSE found
        ELSE IF stored.cnt >= UrcBufSize
             THEN [stored EXCEPT !.cnt = 0, !.item = NO_ITEM, !.buf = <<>>]
             ELSE stored

\* One iteration of the while (size--) loop of urc_recv_process.
urc_recv_byte(u, ch, busy) ==
    LET stored == [u EXCEPT !.buf = Append(SubSeq(u.buf, 1, u.cnt), ch),
                            !.wmax = Max(@, u.cnt),
                            !.cnt = @ + 1]
    IN  IF StrChr(SPEC_URC_END_MARKS, ch)
        THEN LET term == [stored EXCEPT !.wmax = Max(@, stored.cnt)]
                 item == IF term.item = NO_ITEM
                         THEN find_urc_item(term.buf, term.cnt)
                         ELSE term.item
                 found == [term EXCEPT !.item = item]
             IN  IF item # NO_ITEM
                 THEN IF StrChr(urc_tbl[item].end_mark, ch)
                      THEN [found EXCEPT
                                !.calls = urc_handler_entry(found, item),
                                !.cnt = 0, !.item = NO_ITEM, !.buf = <<>>]
                      ELSE found
                 ELSE IF ch = CR \/ ch = LF \/ ch = NUL
                      THEN [found EXCEPT
                                !.logs = IF found.cnt > 2 /\ ~busy
                                         THEN @ + 1 ELSE @,
                                !.cnt = 0, !.buf = <<>>]
                      ELSE found
        ELSE IF stored.cnt >= UrcBufSize
             THEN [stored EXCEPT !.cnt = 0, !.item = NO_ITEM, !.buf = <<>>]
             ELSE stored

RECURSIVE urc_recv_loop(_, _, _)
urc_recv_loop(u, chunk, busy) ==
    IF chunk = <<>> THEN u
    ELSE urc_recv_loop(urc_recv_byte(u, Head(chunk), busy), Tail(chunk), busy)

\* urc_recv_process(at, buf, size)
urc_recv_process(u, chunk, istimeout, busy) ==
    urc_recv_loop(urc_timeout_reset(u, istimeout), chunk, busy)

\* ------------------------------------------------------ response matcher
ERROR == <<"E", "R", "R", "O", "R">>

AT_RET_OK == "AT_RET_OK"
AT_RET_ERROR == "AT_RET_ERROR"
AT_RET_TIMEOUT == "AT_RET_TIMEOUT"
AT_RET_ABORT == "AT_RET_ABORT"

\* A byte of the caller's buffer that the engine has not written.
JUNK == "?"

RECURSIVE Pad(_)
Pad(n) == IF n <= 0 THEN <<>> ELSE <<JUNK>> \o Pad(n - 1)

\* The bytes of a buffer below index cnt.  The engine left its terminator at
\* index Len(buf); what lies beyond it is not the engine's.
Below(buf, cnt) ==
    IF cnt <= Len(buf) THEN SubSeq(buf, 1, cnt)
    ELSE IF Len(buf) = 0 THEN Pad(cnt)
    ELSE buf \o <<NUL>> \o Pad(cnt - Len(buf) - 1)

\* The overflow test of resp_recv_process: the count the chunk is stored at.
resp_store_at(rcv_cnt0, size, rcv_size) ==
    IF rcv_cnt0 + size >= rcv_size THEN 0 ELSE rcv_cnt0

\* The token tests of resp_recv_process, in the code's order.
resp_match_ErrorFirst(rcv_buf, matcher) ==
    IF StrStr(CStr(rcv_buf), ERROR) THEN AT_RET_ERROR
    ELSE IF StrStr(CStr(rcv_buf), matcher) THEN AT_RET_OK
    ELSE NULL
resp_match(rcv_buf, matcher) ==
    IF StrStr(CStr(rcv_buf), matcher) THEN AT_RET_OK
    ELSE IF StrStr(CStr(rcv_buf), ERROR) THEN AT_RET_ERROR
    ELSE NULL

resp_expiry_AbortFirst(istimeout, susp) ==
    IF susp THEN AT_RET_ABORT
    ELSE IF istimeout THEN AT_RET_TIMEOUT
    ELSE NULL

\* The tail of resp_recv_process: timeout before abort.
resp_expiry(istimeout, susp) ==
    IF istimeout THEN AT_RET_TIMEOUT
    ELSE IF susp THEN AT_RET_ABORT
    ELSE NULL

\* resp_recv_process for a non-null spec r, up to the call of
\* resp_notification: the new fill count and buffer, the highest index
\* written (-1 if none) and the outcome to notify (NULL if none).
resp_recv_process(r, rcv_cnt0, rcv_buf, chunk, istimeout, susp) ==
    LET size == Len(chunk)
        at0 == resp_store_at(rcv_cnt0, size, r.bufsize)
        buf1 == Below(rcv_buf, at0) \o chunk
        m == resp_match(buf1, r.matcher)
    IN  IF size > 0
        THEN [rcv_cnt |-> at0 + size, buf |-> buf1, wmax |-> at0 + size,
              notify |-> IF m # NULL THEN m ELSE resp_expiry(istimeout, susp)]
        ELSE [rcv_cnt |-> rcv_cnt0, buf |-> rcv_buf, wmax |-> -1,
              notify |-> resp_expiry(istimeout, susp)]

\* ------------------------------------------------------------------ state
Callers == {"c1", "c2"}
Worker == "w"
Reader == "rd"
Threads == Callers \cup {Worker, Reader}

VARIABLES
    \* at_obj_t
    send_lock, recv_lock, completed,    \* semaphore counts
    resp,                               \* owner of the active spec, or NULL
    ret, rcv_cnt, busy, suspend,
    urc_cnt, urc_item, urc_buf,
    \* at_istimeout(resp_timer, resp->timeout), at_istimeout(urc_timer, ...)
    resp_expired, urc_expired,
    \* the callers' response specs and receive buffers
    rspec, recvbuf,
    \* observations: handler calls, debug lines, highest index written
    urc_calls, urc_logs, urc_tmo, urc_wmax, rcv_wmax,
    \* bytes given to urc_recv_process since construction
    fed,
    \* threads: program counters, return values, number of calls started
    pc, cret, ncalls,
    cput,                               \* bytes of the line put_line wrote
    rd_chunk, rd_resp, rd_ret,          \* locals of at_process and callees
    rx,                                 \* bytes the transport will deliver
    w_buf, w_len,                       \* what ctx.read gave the work function
    \* observations
    send_holder, recv_holder,           \* who took each lock last
    posts,                              \* completion posts since arming
    tx_open, tx_mixed,                  \* line being written; lines mixed
    win_read,                           \* a byte was read during the command
    appended,                           \* buffers the byte read was stored in
    sus_log,                            \* at_suspend and at_resume calls made
    \* the helpers: locals of wait_recv, and a call of at_split_respond_lines
    wait_pc, wait_buf, wait_ret,        \* position, buf[0..cnt-1], ret
    wait_expired,                       \* at_get_ms() - timer >= timeout
    wait_smashed,                       \* buf[sizeof(buf)] was written
    split_arg, split_res                \* arguments; result once returned

urcVars == <<urc_cnt, urc_item, urc_buf, urc_calls, urc_logs, urc_tmo,
             urc_wmax>>
lockVars == <<send_lock, recv_lock, completed>>
respVars == <<resp, ret, rcv_cnt, recvbuf, rcv_wmax>>
procVars == <<pc, cret, ncalls, cput, rd_chunk, rd_resp, rd_ret, rx,
             w_buf, w_len>>
obsVars == <<send_holder, recv_holder, posts, tx_open, tx_mixed,
             win_read, appended>>
waitVars == <<wait_pc, wait_buf, wait_ret, wait_expired, wait_smashed>>
splitVars == <<split_arg, split_res>>
helperVars == <<waitVars, splitVars>>

vars == <<send_lock, recv_lock, completed, resp, ret, rcv_cnt, busy, suspend,
          urc_cnt, urc_item, urc_buf, resp_expired, urc_expired,
          rspec, recvbuf, urc_calls, urc_logs, urc_tmo, urc_wmax, rcv_wmax,
          fed, pc, cret, ncalls, cput, rd_chunk, rd_resp, rd_ret, rx, w_buf, w_len,
          send_holder, recv_holder, posts, tx_open, tx_mixed,
          win_read, appended, sus_log, wait_pc, wait_buf, wait_ret,
          wait_expired, wait_smashed, split_arg, split_res>>

\* No call of wait_recv or at_split_respond_lines has been made.
HelpersIdle ==
    /\ wait_pc = "idle"
    /\ wait_buf = <<>>
    /\ wait_ret = NULL
    /\ wait_expired = FALSE
    /\ wait_smashed = FALSE
    /\ split_arg = <<>>
    /\ split_res = <<>>

\* The URC session as the record the operators work on.
UrcState == [cnt |-> urc_cnt, item |-> urc_item, buf |-> urc_buf,
             calls |-> urc_calls, wmax |-> urc_wmax, logs |-> urc_logs,
             tmo |-> urc_tmo]

SetUrc(u) ==
    /\ urc_cnt' = u.cnt
    /\ urc_item' = u.item
    /\ urc_buf' = u.buf
    /\ urc_calls' = u.calls
    /\ urc_wmax' = u.wmax
    /\ urc_logs' = u.logs
    /\ urc_tmo' = u.tmo

\* The members of at_respond_t in the order of their declaration.
AT_RESPOND_FIELDS == <<"matcher", "recvbuf", "bufsize", "timeout">>

\* at_respond_t x = {v1, v2, v3, v4}: the values go to the members in order.
Initializer(vals) ==
    [f \in {AT_RESPOND_FIELDS[i] : i \in 1..4} |->
        vals[CHOOSE i \in 1..4 : AT_RESPOND_FIELDS[i] = f]]

\* char defbuf[64];
\* at_respond_t default_resp = {"OK", defbuf, sizeof(defbuf), 5000};
default_resp_Short == Initializer(<< <<"O", "K">>, "defbuf", 64, 500 >>)
default_resp == Initializer(<< <<"O", "K">>, "defbuf", 64, 5000 >>)

\* The r each caller passes to at_do_cmd, a pointer being the empty sequence
\* when NULL and the one-element sequence of what it points to otherwise:
\* c1 passes NULL, c2 a spec of its own.
NULL_RESP == <<>>
CmdSpecs == [c \in Callers |->
                IF c = "c1" THEN NULL_RESP
                ELSE <<Initializer(<< <<"K", LF>>, "c2buf", 6, 3000 >>)>>]

\* if (r == NULL) r = &default_resp;
r_or_default(r) == IF r = NULL_RESP THEN default_resp ELSE r[1]

\* at_obj_init on an at_obj_t of static storage: the fields it does not
\* set are zero.
at_obj_init ==
    /\ rcv_cnt = 0
    /\ send_lock = 1
    /\ recv_lock = 1
    /\ completed = 0
    /\ urc_item = NO_ITEM
    /\ urc_cnt = 0
    /\ urc_buf = <<>>
    /\ resp = NULL
    /\ ret = AT_RET_OK
    /\ busy = FALSE
    /\ suspend = FALSE
    /\ resp_expired = FALSE
    /\ urc_expired = FALSE
    /\ recvbuf = [c \in Callers |-> <<>>]
    /\ urc_calls = <<>>
    /\ urc_logs = 0
    /\ urc_tmo = 0
    /\ urc_wmax = -1
    /\ rcv_wmax = [c \in Callers |-> -1]
    /\ fed = <<>>
    /\ pc = [t \in Threads |-> "idle"]
    /\ cret = [t \in Callers \cup {Worker} |-> NULL]
    /\ ncalls = 0
    /\ cput = [c \in Callers |-> 0]
    /\ rd_chunk = <<>>
    /\ rd_resp = NULL
    /\ rd_ret = NULL
    /\ w_buf = <<>>
    /\ w_len = 0
    /\ send_holder = NULL
    /\ recv_holder = NULL
    /\ posts = [c \in Callers |-> 0]
    /\ tx_open = NULL
    /\ tx_mixed = FALSE
    /\ win_read = FALSE
    /\ appended = {}
    /\ sus_log = <<>>

\* ----------------------------------------------- the URC dispatcher alone
\* at_process with no command pending: each byte read goes through
\* urc_recv_process; resp_recv_process returns at once.
InitUrc ==
    /\ at_obj_init
    /\ HelpersIdle
    /\ rspec = [c \in Callers |-> NULL]
    /\ rx = <<>>

\* More than MAX_URC_RECV_TIMEOUT passes without a byte.
UrcTimePass ==
    /\ ~urc_expired
    /\ urc_cnt > 0
    /\ urc_expired' = TRUE
    /\ UNCHANGED <<lockVars, respVars, busy, suspend, urcVars, resp_expired,
                   rspec, fed,
                   procVars, obsVars, sus_log, helperVars>>

\* One iteration of the loop of at_process that read the byte ch.
UrcFeed(ch) ==
    /\ Len(fed) < MaxFeed
    /\ SetUrc(urc_recv_process(UrcState, <<ch>>, urc_expired, busy))
    /\ urc_expired' = FALSE
    /\ fed' = Append(fed, ch)
    /\ UNCHANGED <<lockVars, respVars, busy, suspend, resp_expired, rspec,
                   procVars, obsVars, sus_log, helperVars>>

\* One iteration of the loop of at_process whose read returned nothing.
UrcPoll ==
    /\ urc_expired
    /\ SetUrc(urc_recv_process(UrcState, <<>>, urc_expired, busy))
    /\ UNCHANGED <<lockVars, respVars, busy, suspend, resp_expired,
                   urc_expired, rspec, fed,
                   procVars, obsVars, sus_log, helperVars>>

\* A command or a work session starts or ends while the dispatcher runs:
\* at->busy = true; at->busy = false;
BusyChange ==
    /\ busy' = ~busy
    /\ UNCHANGED <<lockVars, respVars, suspend, urcVars, resp_expired,
                   urc_expired, rspec, fed, procVars, obsVars, sus_log, helperVars>>

NextUrc ==
    \/ UrcTimePass
    \/ \E ch \in UrcAlphabet : UrcFeed(ch)
    \/ UrcPoll

SpecUrc == InitUrc /\ [][NextUrc]_vars

\* The dispatcher fed lines while commands come and go, with no idle
\* timeout.
LineAlphabet == {"+", "C", ",", LF, NUL}

NextUrcBusy ==
    \/ BusyChange
    \/ \E ch \in LineAlphabet : UrcFeed(ch)

SpecUrcBusy == InitUrc /\ [][NextUrcBusy]_vars

\* --------------------------------------------- the response matcher alone
\* One caller has issued a command and blocks in wait_resp; at_process
\* feeds what it reads to urc_recv_process and then resp_recv_process.
\* at_suspend may come at any time; at_resume is a step of the whole engine
\* below.
RespAlphabet == {"E", "R", "O", NUL}

\* Success tokens: one that shares no text with "ERROR", one that occurs in
\* it, so that a single byte can complete both.
RespSpecs == [matcher : {<<"O", "E">>, <<"O", "R">>}, bufsize : {1, 3, 6}]

InitResp ==
    /\ at_obj_init
    /\ HelpersIdle
    /\ \E r \in RespSpecs : rspec = [c \in Callers |-> r]
    /\ rx = <<>>

\* resp_notification(at, r)
resp_notification(r) ==
    /\ ret' = r
    /\ resp' = NULL
    /\ completed' = completed + 1

\* at_do_cmd of caller c, run up to its wait on the completion signal.
RespArm(c) ==
    /\ pc[c] = "idle"
    /\ send_lock = 1
    /\ urc_cnt = 0
    /\ fed = <<>>
    /\ send_lock' = 0
    /\ send_holder' = c
    /\ busy' = TRUE
    /\ ret' = AT_RET_TIMEOUT
    /\ resp_expired' = FALSE
    /\ rcv_cnt' = 0
    /\ resp' = c
    /\ pc' = [pc EXCEPT ![c] = "wait"]
    /\ ncalls' = ncalls + 1
    /\ UNCHANGED <<recv_lock, completed, suspend, urcVars, urc_expired,
                   rspec, recvbuf, rcv_wmax, fed, cret, cput, rd_chunk,
                   rd_resp, rd_ret, rx, w_buf, w_len, recv_holder, posts, tx_open,
                   tx_mixed, win_read, appended, sus_log, helperVars>>

\* The pair of calls in the loop of at_process, for the chunk just read.
ReaderFeed(chunk) ==
    /\ SetUrc(urc_recv_process(UrcState, chunk, urc_expired, busy))
    /\ urc_expired' = IF chunk = <<>> THEN urc_expired ELSE FALSE
    /\ IF resp = NULL
       THEN UNCHANGED <<respVars, completed>>
       ELSE LET c == resp
                e == resp_recv_process(rspec[c], rcv_cnt, recvbuf[c], chunk,
                                       resp_expired, suspend)
            IN  /\ rcv_cnt' = e.rcv_cnt
                /\ recvbuf' = [recvbuf EXCEPT ![c] = e.buf]
                /\ rcv_wmax' = [rcv_wmax EXCEPT ![c] = Max(@, e.wmax)]
                /\ IF e.notify # NULL
                   THEN resp_notification(e.notify)
                   ELSE UNCHANGED <<ret, resp, completed>>

RespFeed(ch) ==
    /\ send_lock = 0
    /\ Len(fed) < MaxFeed
    /\ ReaderFeed(<<ch>>)
    /\ fed' = Append(fed, ch)
    /\ UNCHANGED <<send_lock, recv_lock, busy, suspend, resp_expired, rspec,
                   procVars, obsVars, sus_log, helperVars>>

RespPoll ==
    /\ resp # NULL
    /\ resp_expired \/ suspend
    /\ ReaderFeed(<<>>)
    /\ UNCHANGED <<send_lock, recv_lock, busy, suspend, resp_expired, rspec,
                   fed,
                   procVars, obsVars, sus_log, helperVars>>

\* More than resp->timeout passes since wait_resp took resp_timer.
RespTimePass ==
    /\ ~resp_expired
    /\ \/ resp # NULL
       \/ rd_resp # NULL
       \/ \E c \in Callers : pc[c] \in {"arm2", "arm3", "wait"}
    /\ resp_expired' = TRUE
    /\ UNCHANGED <<lockVars, respVars, busy, suspend, urcVars, urc_expired,
                   rspec, fed, procVars, obsVars, sus_log, helperVars>>

\* at_suspend that flips the flag.
at_suspend_Toggle ==
    /\ ncalls < MaxCalls
    /\ ncalls' = ncalls + 1
    /\ suspend' = ~suspend
    /\ sus_log' = Append(sus_log, "at_suspend")
    /\ UNCHANGED <<lockVars, respVars, busy, urcVars, resp_expired,
                   urc_expired, rspec, fed, pc, cret, cput, rd_chunk,
                   rd_resp, rd_ret, rx, w_buf, w_len, obsVars, helperVars>>

\* at_suspend that ends the pending command by itself.
at_suspend_Preempt ==
    /\ ncalls < MaxCalls
    /\ ncalls' = ncalls + 1
    /\ suspend' = TRUE
    /\ ret' = AT_RET_ABORT
    /\ completed' = completed + 1
    /\ sus_log' = Append(sus_log, "at_suspend")
    /\ UNCHANGED <<send_lock, recv_lock, resp, rcv_cnt, recvbuf, rcv_wmax,
                   busy, urcVars, resp_expired,
                   urc_expired, rspec, fed, pc, cret, cput, rd_chunk,
                   rd_resp, rd_ret, rx, w_buf, w_len, obsVars, helperVars>>

at_suspend ==
    /\ ncalls < MaxCalls
    /\ ncalls' = ncalls + 1
    /\ suspend' = TRUE
    /\ sus_log' = Append(sus_log, "at_suspend")
    /\ UNCHANGED <<lockVars, respVars, busy, urcVars, resp_expired,
                   urc_expired, rspec, fed, pc, cret, cput, rd_chunk,
                   rd_resp, rd_ret, rx, w_buf, w_len, obsVars, helperVars>>

at_resume ==
    /\ ncalls < MaxCalls
    /\ ncalls' = ncalls + 1
    /\ suspend' = FALSE
    /\ sus_log' = Append(sus_log, "at_resume")
    /\ UNCHANGED <<lockVars, respVars, busy, urcVars, resp_expired,
                   urc_expired, rspec, fed, pc, cret, cput, rd_chunk,
                   rd_resp, rd_ret, rx, w_buf, w_len, obsVars, helperVars>>

NextResp ==
    \/ \E c \in {"c1"} : RespArm(c)
    \/ \E ch \in RespAlphabet : RespFeed(ch)
    \/ RespPoll
    \/ RespTimePass
    \/ at_suspend

SpecResp == InitResp /\ [][NextResp]_vars

\* ------------------------------------------------------ the whole engine
\* Callers run at_do_cmd, the worker runs at_do_work, the reader runs
\* at_process.  Every access to a field that another thread can touch is a
\* step of its own, except that the taking of a lock is one step with the
\* statement after it and the release of a lock one step with the statement
\* before it.
Streams == { <<"K", LF>> }

\* put_line(at, cmd): put_string(at, s); put_string(at, "\r\n");
PutStrings == 2

\* What the work function returns.
WorkResults == {"WORK_DONE", "WORK_FAILED"}

Init ==
    /\ at_obj_init
    /\ HelpersIdle
    /\ rspec = [c \in Callers |-> NULL]
    /\ rx \in Streams

\* at_sem_wait(s, timeout) returns true: the count is positive and is taken.
SemAvail_NoWait(s) == TRUE
SemAvail(s) == s > 0

\* What at_do_cmd and at_do_work return when at_sem_wait returns false.
LockFailRet_Busy == "AT_RET_BUSY"
LockFailRet == AT_RET_TIMEOUT

Goto(t, l) == pc' = [pc EXCEPT ![t] = l]

\* The labels at which a caller is between the arming of its spec and its
\* return from at_do_cmd.
InCommand == {"arm2", "arm3", "wait", "clr", "rd", "unbusy"}

\* ---- at_do_cmd
\* at_sem_wait(at->send_lock, r->timeout) takes the lock; at->busy = true;
CmdLock(c) ==
    /\ pc[c] = "idle"
    /\ ncalls < MaxCalls
    /\ ncalls' = ncalls + 1
    /\ rspec' = [rspec EXCEPT ![c] = r_or_default(CmdSpecs[c])]
    /\ SemAvail(send_lock)
    /\ send_lock' = send_lock - 1
    /\ send_holder' = c
    /\ win_read' = FALSE
    /\ busy' = TRUE
    /\ Goto(c, "poll")
    /\ UNCHANGED <<recv_lock, completed, resp, ret, rcv_cnt, suspend, urc_cnt,
                   urc_item, urc_buf, resp_expired, urc_expired, recvbuf,
                   urc_calls, urc_logs, urc_tmo, urc_wmax, rcv_wmax, fed, cret,
                   cput, rd_chunk, rd_resp, rd_ret, rx, w_buf, w_len,
                   recv_holder, posts, tx_open, tx_mixed, appended, sus_log,
                   wait_pc, wait_buf, wait_ret, wait_expired, wait_smashed,
                   split_arg, split_res>>

\* at_sem_wait(at->send_lock, r->timeout) times out: the lock stayed taken.
CmdLockTimeout(c) ==
    /\ pc[c] = "idle"
    /\ ncalls < MaxCalls
    /\ ncalls' = ncalls + 1
    /\ rspec' = [rspec EXCEPT ![c] = r_or_default(CmdSpecs[c])]
    /\ ~SemAvail(send_lock)
    /\ cret' = [cret EXCEPT ![c] = LockFailRet]
    /\ Goto(c, "timedout")
    /\ UNCHANGED <<send_lock, recv_lock, completed, resp, ret, rcv_cnt, busy,
                   suspend, urc_cnt, urc_item, urc_buf, resp_expired,
                   urc_expired, recvbuf, urc_calls, urc_logs, urc_tmo, urc_wmax,
                   rcv_wmax, fed, cput, rd_chunk, rd_resp, rd_ret, rx, w_buf,
                   w_len, send_holder, recv_holder, posts, tx_open, tx_mixed,
                   win_read, appended, sus_log, wait_pc, wait_buf, wait_ret,
                   wait_expired, wait_smashed, split_arg, split_res>>

\* return AT_RET_TIMEOUT; after at_sem_wait(at->send_lock, ...) failed.
CmdReturn(c) ==
    /\ pc[c] = "timedout"
    /\ cret' = [cret EXCEPT ![c] = NULL]
    /\ Goto(c, "idle")
    /\ UNCHANGED <<send_lock, recv_lock, completed, resp, ret, rcv_cnt, busy,
                   suspend, urc_cnt, urc_item, urc_buf, resp_expired,
                   urc_expired, rspec, recvbuf, urc_calls, urc_logs, urc_tmo,
                   urc_wmax, rcv_wmax, fed, ncalls, cput, rd_chunk, rd_resp,
                   rd_ret, rx, w_buf, w_len, send_holder, recv_holder, posts,
                   tx_open, tx_mixed, win_read, appended, sus_log, wait_pc,
                   wait_buf, wait_ret, wait_expired, wait_smashed, split_arg,
                   split_res>>

\* while (at->urc_cnt) at_delay(10);
CmdPoll(c) ==
    /\ pc[c] = "poll"
    /\ urc_cnt = 0
    /\ Goto(c, "put")
    /\ UNCHANGED <<send_lock, recv_lock, completed, resp, ret, rcv_cnt, busy,
                   suspend, urc_cnt, urc_item, urc_buf, resp_expired,
                   urc_expired, rspec, recvbuf, urc_calls, urc_logs, urc_tmo,
                   urc_wmax, rcv_wmax, fed, cret, ncalls, cput, rd_chunk,
                   rd_resp, rd_ret, rx, w_buf, w_len, send_holder, recv_holder,
                   posts, tx_open, tx_mixed, win_read, appended, sus_log,
                   wait_pc, wait_buf, wait_ret, wait_expired, wait_smashed,
                   split_arg, split_res>>

\* put_line: one put_string.
CmdPut(c) ==
    /\ pc[c] = "put"
    /\ cput' = [cput EXCEPT ![c] = @ + 1]
    /\ tx_mixed' = (tx_mixed \/ tx_open \notin {NULL, c})
    /\ tx_open' = IF cput[c] + 1 = PutStrings THEN NULL ELSE c
    /\ Goto(c, IF cput[c] + 1 = PutStrings THEN "arm1" ELSE "put")
    /\ UNCHANGED <<send_lock, recv_lock, completed, resp, ret, rcv_cnt, busy,
                   suspend, urc_cnt, urc_item, urc_buf, resp_expired,
                   urc_expired, rspec, recvbuf, urc_calls, urc_logs, urc_tmo,
                   urc_wmax, rcv_wmax, fed, cret, ncalls, rd_chunk, rd_resp,
                   rd_ret, rx, w_buf, w_len, send_holder, recv_holder, posts,
                   win_read, appended, sus_log, wait_pc, wait_buf, wait_ret,
                   wait_expired, wait_smashed, split_arg, split_res>>

\* wait_resp: at->ret = AT_RET_TIMEOUT; at->resp_timer = at_get_ms();
CmdArm1(c) ==
    /\ pc[c] = "arm1"
    /\ ret' = AT_RET_TIMEOUT
    /\ resp_expired' = FALSE
    /\ posts' = [posts EXCEPT ![c] = 0]
    /\ Goto(c, "arm2")
    /\ UNCHANGED <<send_lock, recv_lock, completed, resp, rcv_cnt, busy, suspend,
                   urc_cnt, urc_item, urc_buf, urc_expired, rspec, recvbuf,
                   urc_calls, urc_logs, urc_tmo, urc_wmax, rcv_wmax, fed, cret,
                   ncalls, cput, rd_chunk, rd_resp, rd_ret, rx, w_buf, w_len,
                   send_holder, recv_holder, tx_open, tx_mixed, win_read,
                   appended, sus_log, wait_pc, wait_buf, wait_ret, wait_expired,
                   wait_smashed, split_arg, split_res>>

\* wait_resp: at->rcv_cnt = 0;
CmdArm2(c) ==
    /\ pc[c] = "arm2"
    /\ rcv_cnt' = 0
    /\ Goto(c, "arm3")
    /\ UNCHANGED <<send_lock, recv_lock, completed, resp, ret, busy, suspend,
                   urc_cnt, urc_item, urc_buf, resp_expired, urc_expired, rspec,
                   recvbuf, urc_calls, urc_logs, urc_tmo, urc_wmax, rcv_wmax,
                   fed, cret, ncalls, cput, rd_chunk, rd_resp, rd_ret, rx, w_buf,
                   w_len, send_holder, recv_holder, posts, tx_open, tx_mixed,
                   win_read, appended, sus_log, wait_pc, wait_buf, wait_ret,
                   wait_expired, wait_smashed, split_arg, split_res>>

\* wait_resp: at->resp = r;
CmdArm3(c) ==
    /\ pc[c] = "arm3"
    /\ resp' = c
    /\ Goto(c, "wait")
    /\ UNCHANGED <<send_lock, recv_lock, completed, ret, rcv_cnt, busy, suspend,
                   urc_cnt, urc_item, urc_buf, resp_expired, urc_expired, rspec,
                   recvbuf, urc_calls, urc_logs, urc_tmo, urc_wmax, rcv_wmax,
                   fed, cret, ncalls, cput, rd_chunk, rd_resp, rd_ret, rx, w_buf,
                   w_len, send_holder, recv_holder, posts, tx_open, tx_mixed,
                   win_read, appended, sus_log, wait_pc, wait_buf, wait_ret,
                   wait_expired, wait_smashed, split_arg, split_res>>

\* wait_resp: at_sem_wait(at->completed, r->timeout) takes the signal.
CmdWake(c) ==
    /\ pc[c] = "wait"
    /\ SemAvail(completed)
    /\ completed' = completed - 1
    /\ Goto(c, "clr")
    /\ UNCHANGED <<send_lock, recv_lock, resp, ret, rcv_cnt, busy, suspend,
                   urc_cnt, urc_item, urc_buf, resp_expired, urc_expired, rspec,
                   recvbuf, urc_calls, urc_logs, urc_tmo, urc_wmax, rcv_wmax,
                   fed, cret, ncalls, cput, rd_chunk, rd_resp, rd_ret, rx, w_buf,
                   w_len, send_holder, recv_holder, posts, tx_open, tx_mixed,
                   win_read, appended, sus_log, wait_pc, wait_buf, wait_ret,
                   wait_expired, wait_smashed, split_arg, split_res>>

\* wait_resp: at_sem_wait(at->completed, r->timeout) times out.
CmdWaitTimeout(c) ==
    /\ pc[c] = "wait"
    /\ ~SemAvail(completed)
    /\ resp_expired
    /\ Goto(c, "clr")
    /\ UNCHANGED <<send_lock, recv_lock, completed, resp, ret, rcv_cnt, busy,
                   suspend, urc_cnt, urc_item, urc_buf, resp_expired,
                   urc_expired, rspec, recvbuf, urc_calls, urc_logs, urc_tmo,
                   urc_wmax, rcv_wmax, fed, cret, ncalls, cput, rd_chunk,
                   rd_resp, rd_ret, rx, w_buf, w_len, send_holder, recv_holder,
                   posts, tx_open, tx_mixed, win_read, appended, sus_log,
                   wait_pc, wait_buf, wait_ret, wait_expired, wait_smashed,
                   split_arg, split_res>>

\* wait_resp: at->resp = NULL;
CmdClr(c) ==
    /\ pc[c] = "clr"
    /\ resp' = NULL
    /\ Goto(c, "rd")
    /\ UNCHANGED <<send_lock, recv_lock, completed, ret, rcv_cnt, busy, suspend,
                   urc_cnt, urc_item, urc_buf, resp_expired, urc_expired, rspec,
                   recvbuf, urc_calls, urc_logs, urc_tmo, urc_wmax, rcv_wmax,
                   fed, cret, ncalls, cput, rd_chunk, rd_resp, rd_ret, rx, w_buf,
                   w_len, send_holder, recv_holder, posts, tx_open, tx_mixed,
                   win_read, appended, sus_log, wait_pc, wait_buf, wait_ret,
                   wait_expired, wait_smashed, split_arg, split_res>>

\* wait_resp: return at->ret; at_do_cmd: at_sem_post(at->send_lock);
CmdRd(c) ==
    /\ pc[c] = "rd"
    /\ cret' = [cret EXCEPT ![c] = ret]
    /\ send_lock' = send_lock + 1
    /\ send_holder' = NULL
    /\ Goto(c, "unbusy")
    /\ UNCHANGED <<recv_lock, completed, resp, ret, rcv_cnt, busy, suspend,
                   urc_cnt, urc_item, urc_buf, resp_expired, urc_expired, rspec,
                   recvbuf, urc_calls, urc_logs, urc_tmo, urc_wmax, rcv_wmax,
                   fed, ncalls, cput, rd_chunk, rd_resp, rd_ret, rx, w_buf,
                   w_len, recv_holder, posts, tx_open, tx_mixed, win_read,
                   appended, sus_log, wait_pc, wait_buf, wait_ret, wait_expired,
                   wait_smashed, split_arg, split_res>>

\* at->busy = false; return ret;
CmdUnbusy(c) ==
    /\ pc[c] = "unbusy"
    /\ busy' = FALSE
    /\ cret' = [cret EXCEPT ![c] = NULL]
    /\ cput' = [cput EXCEPT ![c] = 0]
    /\ posts' = [posts EXCEPT ![c] = 0]
    /\ Goto(c, "idle")
    /\ UNCHANGED <<send_lock, recv_lock, completed, resp, ret, rcv_cnt, suspend,
                   urc_cnt, urc_item, urc_buf, resp_expired, urc_expired, rspec,
                   recvbuf, urc_calls, urc_logs, urc_tmo, urc_wmax, rcv_wmax,
                   fed, ncalls, rd_chunk, rd_resp, rd_ret, rx, w_buf, w_len,
                   send_holder, recv_holder, tx_open, tx_mixed, win_read,
                   appended, sus_log, wait_pc, wait_buf, wait_ret, wait_expired,
                   wait_smashed, split_arg, split_res>>

at_do_cmd(c) ==
    \/ CmdLock(c) \/ CmdLockTimeout(c) \/ CmdReturn(c) \/ CmdPoll(c)
    \/ CmdPut(c) \/ CmdArm1(c) \/ CmdArm2(c) \/ CmdArm3(c) \/ CmdWake(c)
    \/ CmdWaitTimeout(c) \/ CmdClr(c) \/ CmdRd(c) \/ CmdUnbusy(c)

\* ---- at_process
\* while (len): where the loop goes after its body.
NextIter == IF rd_chunk # <<>> THEN "r_read" ELSE "r_unlock"

\* at_sem_wait(at->recv_lock, MAX_AT_LOCK_TIME) takes the lock.
RdEnter ==
    /\ pc[Reader] = "idle"
    /\ SemAvail(recv_lock)
    /\ recv_lock' = recv_lock - 1
    /\ recv_holder' = Reader
    /\ Goto(Reader, "r_read")
    /\ UNCHANGED <<send_lock, completed, resp, ret, rcv_cnt, busy, suspend,
                   urc_cnt, urc_item, urc_buf, resp_expired, urc_expired, rspec,
                   recvbuf, urc_calls, urc_logs, urc_tmo, urc_wmax, rcv_wmax,
                   fed, cret, ncalls, cput, rd_chunk, rd_resp, rd_ret, rx, w_buf,
                   w_len, send_holder, posts, tx_open, tx_mixed, win_read,
                   appended, sus_log, wait_pc, wait_buf, wait_ret, wait_expired,
                   wait_smashed, split_arg, split_res>>

\* The loop of at_process with the call of urc_recv_process left out.
RdRead_MatcherOnly ==
    /\ pc[Reader] = "r_read"
    /\ \E n \in 0..(IF rx = <<>> THEN 0 ELSE 1) :
         /\ rd_chunk' = SubSeq(rx, 1, n)
         /\ rx' = SubSeq(rx, n + 1, Len(rx))
         /\ win_read' = (win_read \/ n > 0)
    /\ appended' = {}
    /\ Goto(Reader, "r_cap")
    /\ UNCHANGED <<send_lock, recv_lock, completed, resp, ret, rcv_cnt, busy,
                   suspend, urc_cnt, urc_item, urc_buf, resp_expired,
                   urc_expired, rspec, recvbuf, urc_calls, urc_logs, urc_tmo,
                   urc_wmax, rcv_wmax, fed, cret, ncalls, cput, rd_resp, rd_ret,
                   w_buf, w_len, send_holder, recv_holder, posts, tx_open,
                   tx_mixed, sus_log, wait_pc, wait_buf, wait_ret, wait_expired,
                   wait_smashed, split_arg, split_res>>

\* The loop of at_process with an urc_recv_process whose resets clear
\* at->rcv_cnt as well.
RdRead_ClearsRcvCnt ==
    /\ pc[Reader] = "r_read"
    /\ \E n \in 0..(IF rx = <<>> THEN 0 ELSE 1) :
         /\ rd_chunk' = SubSeq(rx, 1, n)
         /\ rx' = SubSeq(rx, n + 1, Len(rx))
         /\ win_read' = (win_read \/ n > 0)
         /\ SetUrc(urc_recv_process(UrcState, SubSeq(rx, 1, n), urc_expired,
                                    busy))
         /\ urc_expired' = IF n = 0 THEN urc_expired ELSE FALSE
         /\ fed' = fed \o SubSeq(rx, 1, n)
         /\ rcv_cnt' = IF n > 0 /\ urc_cnt' = 0 THEN 0 ELSE rcv_cnt
    /\ appended' = {}
    /\ Goto(Reader, "r_cap")
    /\ UNCHANGED <<send_lock, recv_lock, completed, resp, ret, busy, suspend,
                   resp_expired, rspec, recvbuf, rcv_wmax, cret, ncalls, cput,
                   rd_resp, rd_ret, w_buf, w_len, send_holder, recv_holder,
                   posts, tx_open, tx_mixed, sus_log, wait_pc, wait_buf,
                   wait_ret, wait_expired, wait_smashed, split_arg, split_res>>

\* len = at->adap.read(buf, sizeof(buf)), one byte or none, and
\* urc_recv_process(at, buf, len).
RdRead ==
    /\ pc[Reader] = "r_read"
    /\ \E n \in 0..(IF rx = <<>> THEN 0 ELSE 1) :
         /\ rd_chunk' = SubSeq(rx, 1, n)
         /\ rx' = SubSeq(rx, n + 1, Len(rx))
         /\ win_read' = (win_read \/ n > 0)
         /\ SetUrc(urc_recv_process(UrcState, SubSeq(rx, 1, n), urc_expired,
                                    busy))
         /\ urc_expired' = IF n = 0 THEN urc_expired ELSE FALSE
         /\ fed' = fed \o SubSeq(rx, 1, n)
    /\ appended' = {}
    /\ Goto(Reader, "r_cap")
    /\ UNCHANGED <<send_lock, recv_lock, completed, resp, ret, rcv_cnt, busy,
                   suspend, resp_expired, rspec, recvbuf, rcv_wmax, cret, ncalls,
                   cput, rd_resp, rd_ret, w_buf, w_len, send_holder, recv_holder,
                   posts, tx_open, tx_mixed, sus_log, wait_pc, wait_buf,
                   wait_ret, wait_expired, wait_smashed, split_arg, split_res>>

\* resp_recv_process: at_respond_t *resp = at->resp; if (resp == NULL) return;
RdCap ==
    /\ pc[Reader] = "r_cap"
    /\ rd_resp' = resp
    /\ Goto(Reader, IF resp = NULL THEN NextIter ELSE "r_eval")
    /\ UNCHANGED <<send_lock, recv_lock, completed, resp, ret, rcv_cnt, busy,
                   suspend, urc_cnt, urc_item, urc_buf, resp_expired,
                   urc_expired, rspec, recvbuf, urc_calls, urc_logs, urc_tmo,
                   urc_wmax, rcv_wmax, fed, cret, ncalls, cput, rd_chunk, rd_ret,
                   rx, w_buf, w_len, send_holder, recv_holder, posts, tx_open,
                   tx_mixed, win_read, appended, sus_log, wait_pc, wait_buf,
                   wait_ret, wait_expired, wait_smashed, split_arg, split_res>>

\* resp_recv_process on the spec it loaded, up to resp_notification.
RdEval ==
    /\ pc[Reader] = "r_eval"
    /\ LET c == rd_resp
           e == resp_recv_process(rspec[c], rcv_cnt, recvbuf[c], rd_chunk,
                                  resp_expired, suspend)
       IN  /\ rcv_cnt' = e.rcv_cnt
           /\ recvbuf' = [recvbuf EXCEPT ![c] = e.buf]
           /\ rcv_wmax' = [rcv_wmax EXCEPT ![c] = Max(@, e.wmax)]
           /\ appended' = IF rd_chunk # <<>> THEN appended \cup {c}
                          ELSE appended
           /\ rd_ret' = e.notify
           /\ rd_resp' = IF e.notify = NULL THEN NULL ELSE rd_resp
           /\ Goto(Reader, IF e.notify = NULL THEN NextIter ELSE "r_ntf1")
    /\ UNCHANGED <<send_lock, recv_lock, completed, resp, ret, busy, suspend,
                   urc_cnt, urc_item, urc_buf, resp_expired, urc_expired, rspec,
                   urc_calls, urc_logs, urc_tmo, urc_wmax, fed, cret, ncalls,
                   cput, rd_chunk, rx, w_buf, w_len, send_holder, recv_holder,
                   posts, tx_open, tx_mixed, win_read, sus_log, wait_pc,
                   wait_buf, wait_ret, wait_expired, wait_smashed, split_arg,
                   split_res>>

\* resp_notification: at->ret = ret; at->resp = NULL;
RdNtf1 ==
    /\ pc[Reader] = "r_ntf1"
    /\ ret' = rd_ret
    /\ resp' = NULL
    /\ Goto(Reader, "r_ntf2")
    /\ UNCHANGED <<send_lock, recv_lock, completed, rcv_cnt, busy, suspend,
                   urc_cnt, urc_item, urc_buf, resp_expired, urc_expired, rspec,
                   recvbuf, urc_calls, urc_logs, urc_tmo, urc_wmax, rcv_wmax,
                   fed, cret, ncalls, cput, rd_chunk, rd_resp, rd_ret, rx, w_buf,
                   w_len, send_holder, recv_holder, posts, tx_open, tx_mixed,
                   win_read, appended, sus_log, wait_pc, wait_buf, wait_ret,
                   wait_expired, wait_smashed, split_arg, split_res>>

\* resp_notification: at_sem_post(at->completed);
RdNtf2 ==
    /\ pc[Reader] = "r_ntf2"
    /\ completed' = completed + 1
    /\ posts' = [c \in Callers |->
                    IF pc[c] \in InCommand THEN posts[c] + 1 ELSE posts[c]]
    /\ rd_resp' = NULL
    /\ rd_ret' = NULL
    /\ Goto(Reader, NextIter)
    /\ UNCHANGED <<send_lock, recv_lock, resp, ret, rcv_cnt, busy, suspend,
                   urc_cnt, urc_item, urc_buf, resp_expired, urc_expired, rspec,
                   recvbuf, urc_calls, urc_logs, urc_tmo, urc_wmax, rcv_wmax,
                   fed, cret, ncalls, cput, rd_chunk, rx, w_buf, w_len,
                   send_holder, recv_holder, tx_open, tx_mixed, win_read,
                   appended, sus_log, wait_pc, wait_buf, wait_ret, wait_expired,
                   wait_smashed, split_arg, split_res>>

\* at_sem_post(at->recv_lock);
RdLeave ==
    /\ pc[Reader] = "r_unlock"
    /\ recv_lock' = recv_lock + 1
    /\ recv_holder' = NULL
    /\ Goto(Reader, "idle")
    /\ UNCHANGED <<send_lock, completed, resp, ret, rcv_cnt, busy, suspend,
                   urc_cnt, urc_item, urc_buf, resp_expired, urc_expired, rspec,
                   recvbuf, urc_calls, urc_logs, urc_tmo, urc_wmax, rcv_wmax,
                   fed, cret, ncalls, cput, rd_chunk, rd_resp, rd_ret, rx, w_buf,
                   w_len, send_holder, posts, tx_open, tx_mixed, win_read,
                   appended, sus_log, wait_pc, wait_buf, wait_ret, wait_expired,
                   wait_smashed, split_arg, split_res>>

at_process ==
    \/ RdEnter \/ RdRead \/ RdCap \/ RdEval \/ RdNtf1 \/ RdNtf2 \/ RdLeave

\* ---- at_do_work

\* at_sem_wait(at->send_lock, MAX_AT_LOCK_TIME) takes the lock.
WorkLockSend ==
    /\ pc[Worker] = "idle"
    /\ ncalls < MaxCalls
    /\ ncalls' = ncalls + 1
    /\ SemAvail(send_lock)
    /\ send_lock' = send_lock - 1
    /\ send_holder' = Worker
    /\ Goto(Worker, "w_lock_r")
    /\ UNCHANGED <<recv_lock, completed, resp, ret, rcv_cnt, busy, suspend,
                   urc_cnt, urc_item, urc_buf, resp_expired, urc_expired, rspec,
                   recvbuf, urc_calls, urc_logs, urc_tmo, urc_wmax, rcv_wmax,
                   fed, cret, cput, rd_chunk, rd_resp, rd_ret, rx, w_buf, w_len,
                   recv_holder, posts, tx_open, tx_mixed, win_read, appended,
                   sus_log, wait_pc, wait_buf, wait_ret, wait_expired,
                   wait_smashed, split_arg, split_res>>

\* at_sem_wait(at->send_lock, MAX_AT_LOCK_TIME) times out.
WorkLockSendTimeout ==
    /\ pc[Worker] = "idle"
    /\ ncalls < MaxCalls
    /\ ncalls' = ncalls + 1
    /\ ~SemAvail(send_lock)
    /\ cret' = [cret EXCEPT ![Worker] = LockFailRet]
    /\ Goto(Worker, "timedout")
    /\ UNCHANGED <<send_lock, recv_lock, completed, resp, ret, rcv_cnt, busy,
                   suspend, urc_cnt, urc_item, urc_buf, resp_expired,
                   urc_expired, rspec, recvbuf, urc_calls, urc_logs, urc_tmo,
                   urc_wmax, rcv_wmax, fed, cput, rd_chunk, rd_resp, rd_ret, rx,
                   w_buf, w_len, send_holder, recv_holder, posts, tx_open,
                   tx_mixed, win_read, appended, sus_log, wait_pc, wait_buf,
                   wait_ret, wait_expired, wait_smashed, split_arg, split_res>>

\* at_sem_wait(at->recv_lock, MAX_AT_LOCK_TIME) takes the lock;
\* at->busy = true; ... at->rcv_cnt = 0;
WorkLockRecv ==
    /\ pc[Worker] = "w_lock_r"
    /\ SemAvail(recv_lock)
    /\ recv_lock' = recv_lock - 1
    /\ recv_holder' = Worker
    /\ busy' = TRUE
    /\ rcv_cnt' = 0
    /\ Goto(Worker, "w_work")
    /\ UNCHANGED <<send_lock, completed, resp, ret, suspend, urc_cnt, urc_item,
                   urc_buf, resp_expired, urc_expired, rspec, recvbuf, urc_calls,
                   urc_logs, urc_tmo, urc_wmax, rcv_wmax, fed, cret, ncalls,
                   cput, rd_chunk, rd_resp, rd_ret, rx, w_buf, w_len,
                   send_holder, posts, tx_open, tx_mixed, win_read, appended,
                   sus_log, wait_pc, wait_buf, wait_ret, wait_expired,
                   wait_smashed, split_arg, split_res>>

\* if (!at_sem_wait(at->recv_lock, MAX_AT_LOCK_TIME)) return AT_RET_TIMEOUT;
WorkLockRecvTimeout ==
    /\ pc[Worker] = "w_lock_r"
    /\ ~SemAvail(recv_lock)
    /\ cret' = [cret EXCEPT ![Worker] = LockFailRet]
    /\ Goto(Worker, "timedout")
    /\ UNCHANGED <<send_lock, recv_lock, completed, resp, ret, rcv_cnt, busy,
                   suspend, urc_cnt, urc_item, urc_buf, resp_expired,
                   urc_expired, rspec, recvbuf, urc_calls, urc_logs, urc_tmo,
                   urc_wmax, rcv_wmax, fed, ncalls, cput, rd_chunk, rd_resp,
                   rd_ret, rx, w_buf, w_len, send_holder, recv_holder, posts,
                   tx_open, tx_mixed, win_read, appended, sus_log, wait_pc,
                   wait_buf, wait_ret, wait_expired, wait_smashed, split_arg,
                   split_res>>

\* return AT_RET_TIMEOUT; after either at_sem_wait failed.
WorkReturnTimeout ==
    /\ pc[Worker] = "timedout"
    /\ cret' = [cret EXCEPT ![Worker] = NULL]
    /\ Goto(Worker, "idle")
    /\ UNCHANGED <<send_lock, recv_lock, completed, resp, ret, rcv_cnt, busy,
                   suspend, urc_cnt, urc_item, urc_buf, resp_expired,
                   urc_expired, rspec, recvbuf, urc_calls, urc_logs, urc_tmo,
                   urc_wmax, rcv_wmax, fed, ncalls, cput, rd_chunk, rd_resp,
                   rd_ret, rx, w_buf, w_len, send_holder, recv_holder, posts,
                   tx_open, tx_mixed, win_read, appended, sus_log, wait_pc,
                   wait_buf, wait_ret, wait_expired, wait_smashed, split_arg,
                   split_res>>

\* at_work_read that returns the bytes without urc_recv_process.
WorkRead_NoUrc(n) ==
    /\ pc[Worker] = "w_work"
    /\ \E k \in 0..(IF n <= Len(rx) THEN n ELSE Len(rx)) :
         /\ w_buf' = SubSeq(rx, 1, k)
         /\ w_len' = k
         /\ rx' = SubSeq(rx, k + 1, Len(rx))
         /\ win_read' = (win_read \/ k > 0)
    /\ UNCHANGED <<send_lock, recv_lock, completed, resp, ret, rcv_cnt, busy,
                   suspend, urc_cnt, urc_item, urc_buf, resp_expired,
                   urc_expired, rspec, recvbuf, urc_calls, urc_logs, urc_tmo,
                   urc_wmax, rcv_wmax, fed, pc, cret, ncalls, cput, rd_chunk,
                   rd_resp, rd_ret, send_holder, recv_holder, posts, tx_open,
                   tx_mixed, appended, sus_log, wait_pc, wait_buf, wait_ret,
                   wait_expired, wait_smashed, split_arg, split_res>>

\* at_work_read(e, buf, n): len = at->adap.read(buf, len), the transport
\* giving k of the n bytes asked for; urc_recv_process(at, buf, len);
\* return len.
WorkRead(n) ==
    /\ pc[Worker] = "w_work"
    /\ \E k \in 0..(IF n <= Len(rx) THEN n ELSE Len(rx)) :
         /\ w_buf' = SubSeq(rx, 1, k)
         /\ w_len' = k
         /\ rx' = SubSeq(rx, k + 1, Len(rx))
         /\ win_read' = (win_read \/ k > 0)
         /\ SetUrc(urc_recv_process(UrcState, SubSeq(rx, 1, k), urc_expired,
                                    busy))
         /\ urc_expired' = IF k = 0 THEN urc_expired ELSE FALSE
         /\ fed' = fed \o SubSeq(rx, 1, k)
    /\ UNCHANGED <<send_lock, recv_lock, completed, resp, ret, rcv_cnt, busy,
                   suspend, resp_expired, rspec, recvbuf, rcv_wmax, pc, cret,
                   ncalls, cput, rd_chunk, rd_resp, rd_ret, send_holder,
                   recv_holder, posts, tx_open, tx_mixed, appended, sus_log,
                   wait_pc, wait_buf, wait_ret, wait_expired, wait_smashed,
                   split_arg, split_res>>

\* ret = work(&ctx); the work function's buffer ends with it.
WorkReturn(v) ==
    /\ pc[Worker] = "w_work"
    /\ w_buf' = <<>>
    /\ w_len' = 0
    /\ cret' = [cret EXCEPT ![Worker] = v]
    /\ Goto(Worker, "w_unlock")
    /\ UNCHANGED <<send_lock, recv_lock, completed, resp, ret, rcv_cnt, busy,
                   suspend, urc_cnt, urc_item, urc_buf, resp_expired,
                   urc_expired, rspec, recvbuf, urc_calls, urc_logs, urc_tmo,
                   urc_wmax, rcv_wmax, fed, ncalls, cput, rd_chunk, rd_resp,
                   rd_ret, rx, send_holder, recv_holder, posts, tx_open,
                   tx_mixed, win_read, appended, sus_log, wait_pc, wait_buf,
                   wait_ret, wait_expired, wait_smashed, split_arg, split_res>>

\* at_sem_post(at->recv_lock); at_sem_post(at->send_lock);
WorkUnlock ==
    /\ pc[Worker] = "w_unlock"
    /\ recv_lock' = recv_lock + 1
    /\ recv_holder' = NULL
    /\ send_lock' = send_lock + 1
    /\ send_holder' = NULL
    /\ Goto(Worker, "w_unbusy")
    /\ UNCHANGED <<completed, resp, ret, rcv_cnt, busy, suspend, urc_cnt,
                   urc_item, urc_buf, resp_expired, urc_expired, rspec, recvbuf,
                   urc_calls, urc_logs, urc_tmo, urc_wmax, rcv_wmax, fed, cret,
                   ncalls, cput, rd_chunk, rd_resp, rd_ret, rx, w_buf, w_len,
                   posts, tx_open, tx_mixed, win_read, appended, sus_log,
                   wait_pc, wait_buf, wait_ret, wait_expired, wait_smashed,
                   split_arg, split_res>>

\* at->busy = false; return ret;
WorkUnbusy ==
    /\ pc[Worker] = "w_unbusy"
    /\ busy' = FALSE
    /\ cret' = [cret EXCEPT ![Worker] = NULL]
    /\ Goto(Worker, "idle")
    /\ UNCHANGED <<send_lock, recv_lock, completed, resp, ret, rcv_cnt, suspend,
                   urc_cnt, urc_item, urc_buf, resp_expired, urc_expired, rspec,
                   recvbuf, urc_calls, urc_logs, urc_tmo, urc_wmax, rcv_wmax,
                   fed, ncalls, cput, rd_chunk, rd_resp, rd_ret, rx, w_buf,
                   w_len, send_holder, recv_holder, posts, tx_open, tx_mixed,
                   win_read, appended, sus_log, wait_pc, wait_buf, wait_ret,
                   wait_expired, wait_smashed, split_arg, split_res>>

at_do_work ==
    \/ WorkLockSend \/ WorkLockSendTimeout \/ WorkLockRecv
    \/ WorkLockRecvTimeout \/ WorkReturnTimeout
    \/ \E n \in 1..MaxChunk : WorkRead(n)
    \/ \E v \in WorkResults : WorkReturn(v)
    \/ WorkUnlock \/ WorkUnbusy

Next ==
    \/ \E c \in Callers : at_do_cmd(c)
    \/ at_do_work
    \/ at_process
    \/ at_suspend
    \/ at_resume
    \/ RespTimePass
    \/ UrcTimePass

Spec == Init /\ [][Next]_vars

\* ------------------------------------------------------------- wait_recv
\* The work function of a work session calls ctx.wait_recv(e, "OK", timeout).
\* char buf[64] is kept to WaitBufSize bytes; wait_buf is buf[0..cnt-1].
WaitBufSize == 6

\* const char *resp
WaitExpected == <<"O", "K">>

\* Bytes the transport may give while wait_recv polls.
WaitAlphabet == {"O", "K", "E", "R", NUL}

\* The chunks of up to n bytes that e->read may return.
RECURSIVE WaitChunks(_)
WaitChunks(n) ==
    IF n <= 0 THEN {}
    ELSE LET shorter == WaitChunks(n - 1)
         IN  {<<ch>> : ch \in WaitAlphabet} \cup shorter
               \cup {Append(s, ch) : s \in shorter, ch \in WaitAlphabet}

\* What a caller of wait_recv may see once it has written outside buf.
WaitRets == {AT_RET_OK, AT_RET_ERROR, AT_RET_TIMEOUT}

\* at_return ret = AT_RET_TIMEOUT; int cnt = 0; timer = at_get_ms();
WaitCall ==
    /\ pc[Worker] = "w_work"
    /\ wait_pc = "idle"
    /\ wait_pc' = "loop"
    /\ wait_buf' = <<>>
    /\ wait_ret' = AT_RET_TIMEOUT
    /\ wait_expired' = FALSE
    /\ UNCHANGED <<send_lock, recv_lock, completed, resp, ret, rcv_cnt, busy,
                   suspend, urc_cnt, urc_item, urc_buf, resp_expired,
                   urc_expired, rspec, recvbuf, urc_calls, urc_logs, urc_tmo,
                   urc_wmax, rcv_wmax, fed, pc, cret, ncalls, cput, rd_chunk,
                   rd_resp, rd_ret, rx, w_buf, w_len, send_holder, recv_holder,
                   posts, tx_open, tx_mixed, win_read, appended, sus_log,
                   wait_smashed, split_arg, split_res>>

\* The timeout passes: at_get_ms() - timer < timeout no longer holds.
WaitTimePass ==
    /\ wait_pc = "loop"
    /\ ~wait_expired
    /\ wait_expired' = TRUE
    /\ UNCHANGED <<send_lock, recv_lock, completed, resp, ret, rcv_cnt, busy,
                   suspend, urc_cnt, urc_item, urc_buf, resp_expired,
                   urc_expired, rspec, recvbuf, urc_calls, urc_logs, urc_tmo,
                   urc_wmax, rcv_wmax, fed, pc, cret, ncalls, cput, rd_chunk,
                   rd_resp, rd_ret, rx, w_buf, w_len, send_holder, recv_holder,
                   posts, tx_open, tx_mixed, win_read, appended, sus_log,
                   wait_pc, wait_buf, wait_ret, wait_smashed, split_arg,
                   split_res>>

\* while (at_get_ms() - timer < timeout):
\* len = e->read(e, &buf[cnt], sizeof(buf) - cnt), which is at_work_read and
\* feeds urc_recv_process; if (len > 0) { cnt += len; buf[cnt] = '\0';
\* strstr(buf, resp) -> AT_RET_OK; strstr(buf, "ERROR") -> AT_RET_ERROR }.
\* With cnt == sizeof(buf) the terminator is written outside buf.  A read
\* that gives nothing (at_delay(1)) changes nothing and is left out.
WaitRead(chunk) ==
    /\ wait_pc = "loop"
    /\ ~wait_expired
    /\ Len(chunk) <= WaitBufSize - Len(wait_buf)
    /\ SetUrc(urc_recv_process(UrcState, chunk, urc_expired, busy))
    /\ urc_expired' = FALSE
    /\ fed' = fed \o chunk
    /\ w_buf' = chunk
    /\ w_len' = Len(chunk)
    /\ LET b == wait_buf \o chunk
       IN  /\ wait_buf' = b
           /\ wait_smashed' = (wait_smashed \/ Len(b) = WaitBufSize)
           /\ IF StrStr(CStr(b), WaitExpected)
              THEN wait_ret' = AT_RET_OK /\ wait_pc' = "done"
              ELSE IF StrStr(CStr(b), ERROR)
                   THEN wait_ret' = AT_RET_ERROR /\ wait_pc' = "done"
                   ELSE UNCHANGED <<wait_ret, wait_pc>>
    /\ UNCHANGED <<send_lock, recv_lock, completed, resp, ret, rcv_cnt, busy,
                   suspend, resp_expired, rspec, recvbuf, rcv_wmax, pc, cret,
                   ncalls, cput, rd_chunk, rd_resp, rd_ret, rx, send_holder,
                   recv_holder, posts, tx_open, tx_mixed, win_read, appended,
                   sus_log, wait_expired, split_arg, split_res>>

\* After the write to buf[sizeof(buf)] the behaviour is undefined: the loop
\* may go on as written, return any value, or never return.
WaitUndefined ==
    /\ wait_pc = "loop"
    /\ wait_smashed
    /\ \/ wait_pc' = "lost" /\ UNCHANGED wait_ret
       \/ wait_pc' = "done" /\ wait_ret' \in WaitRets
    /\ UNCHANGED <<send_lock, recv_lock, completed, resp, ret, rcv_cnt, busy,
                   suspend, urc_cnt, urc_item, urc_buf, resp_expired,
                   urc_expired, rspec, recvbuf, urc_calls, urc_logs, urc_tmo,
                   urc_wmax, rcv_wmax, fed, pc, cret, ncalls, cput, rd_chunk,
                   rd_resp, rd_ret, rx, w_buf, w_len, send_holder, recv_holder,
                   posts, tx_open, tx_mixed, win_read, appended, sus_log,
                   wait_buf, wait_expired, wait_smashed, split_arg, split_res>>

\* The loop condition fails; at->adap.debug("%s\r\n", buf); return ret;
WaitExit ==
    /\ wait_pc = "loop"
    /\ wait_expired
    /\ wait_pc' = "done"
    /\ UNCHANGED <<send_lock, recv_lock, completed, resp, ret, rcv_cnt, busy,
                   suspend, urc_cnt, urc_item, urc_buf, resp_expired,
                   urc_expired, rspec, recvbuf, urc_calls, urc_logs, urc_tmo,
                   urc_wmax, rcv_wmax, fed, pc, cret, ncalls, cput, rd_chunk,
                   rd_resp, rd_ret, rx, w_buf, w_len, send_holder, recv_holder,
                   posts, tx_open, tx_mixed, win_read, appended, sus_log,
                   wait_buf, wait_ret, wait_expired, wait_smashed, split_arg,
                   split_res>>

wait_recv ==
    \/ WaitCall
    \/ WaitTimePass
    \/ \E chunk \in WaitChunks(MaxChunk) : WaitRead(chunk)
    \/ WaitUndefined
    \/ WaitExit

\* A work session (the locks taken, busy set) whose work function calls
\* wait_recv once.
NextWait ==
    \/ WorkLockSend
    \/ WorkLockRecv
    \/ wait_recv

SpecWait == InitUrc /\ [][NextWait]_vars


\* ------------------------------------------------ at_split_respond_lines
\* A pointer argument is <<>> when null and <<object>> otherwise.  A buffer
\* is the bytes before its terminating NUL; a field is the index in the
\* buffer where it starts (recvbuf itself is index 1).
SplitMaxLen == 3
SplitMaxCount == 3

SplitAlphabet == {"a", ",", LF}

RECURSIVE SplitStrings(_)
SplitStrings(n) ==
    IF n = 0 THEN {<<>>}
    ELSE LET shorter == SplitStrings(n - 1)
         IN  shorter \cup {Append(s, ch) : s \in shorter, ch \in SplitAlphabet}

\* The calls made: recvbuf, lines, count, separator.
SplitArgs ==
    [recvbuf : {<<>>} \cup {<<s>> : s \in SplitStrings(SplitMaxLen)},
     lines : {<<>>, <<"array">>},
     count : 0..SplitMaxCount,
     separator : {",", LF}]

\* while (*s && i < count) { if (*s == ',') { *s = '\0'; lines[i++] = s + 1; }
\* s++; } return i;   with i counted from 0 as in the code, and s an index.
RECURSIVE split_loop(_, _, _, _)
split_loop(buf, lines, s, count) ==
    IF s <= Len(buf) /\ buf[s] # NUL /\ Len(lines) < count
    THEN IF buf[s] = ","
         THEN split_loop([buf EXCEPT ![s] = NUL], Append(lines, s + 1), s + 1,
                         count)
         ELSE split_loop(buf, lines, s + 1, count)
    ELSE [ret |-> Len(lines), recvbuf |-> buf, lines |-> lines]

\* int at_split_respond_lines(char *recvbuf, char *lines[], int count,
\*                            char separator)
at_split_respond_lines(buf, lines, count, separator) ==
    IF buf = <<>> \/ lines = <<>>
    THEN [ret |-> 0, recvbuf |-> <<>>, lines |-> <<>>]
    ELSE split_loop(buf[1], <<1>>, 1, count)


\* n = at_split_respond_lines(recvbuf, lines, count, separator);
SplitCall ==
    /\ split_arg # <<>>
    /\ split_res = <<>>
    /\ split_res' = <<at_split_respond_lines(split_arg[1].recvbuf,
                                             split_arg[1].lines,
                                             split_arg[1].count,
                                             split_arg[1].separator)>>
    /\ UNCHANGED <<send_lock, recv_lock, completed, resp, ret, rcv_cnt, busy,
                   suspend, urc_cnt, urc_item, urc_buf, resp_expired,
                   urc_expired, rspec, recvbuf, urc_calls, urc_logs, urc_tmo,
                   urc_wmax, rcv_wmax, fed, pc, cret, ncalls, cput, rd_chunk,
                   rd_resp, rd_ret, rx, w_buf, w_len, send_holder, recv_holder,
                   posts, tx_open, tx_mixed, win_read, appended, sus_log,
                   wait_pc, wait_buf, wait_ret, wait_expired, wait_smashed,
                   split_arg>>

\* One call of at_split_respond_lines on any of the arguments.
InitSplit ==
    /\ at_obj_init
    /\ rspec = [c \in Callers |-> NULL]
    /\ rx = <<>>
    /\ wait_pc = "idle"
    /\ wait_buf = <<>>
    /\ wait_ret = NULL
    /\ wait_expired = FALSE
    /\ wait_smashed = FALSE
    /\ split_arg \in {<<a>> : a \in SplitArgs}
    /\ split_res = <<>>

NextSplit == SplitCall

SpecSplit == InitSplit /\ [][NextSplit]_vars

\* C2: every write into the URC session buffer, the terminator included, is
\* at an index below urc_bufsize, and urc_cnt never exceeds urc_bufsize.
C2_UrcWritesInBounds ==
    /\ urc_wmax < UrcBufSize
    /\ urc_cnt <= UrcBufSize

\* The stream fed so far is prefix, payload, CR, LF for entry e, the payload
\* holding none of the characters of excl.
IsUrcMessage(e, s, excl) ==
    LET p == urc_tbl[e].prefix IN
    /\ Len(s) >= Len(p) + 2
    /\ SubSeq(s, 1, Len(p)) = p
    /\ s[Len(s) - 1] = CR
    /\ s[Len(s)] = LF
    /\ \A i \in (Len(p) + 1)..(Len(s) - 2) : s[i] \notin excl

\* No idle timeout hit the session and no earlier entry claims the text.
UrcUndisturbed(e, s) ==
    /\ urc_tmo = 0
    /\ \A j \in 1..(e - 1) : ~StrStr(CStr(s), urc_tbl[j].prefix)

DispatchedOnce(e, s) ==
    /\ urc_calls = << [item |-> e, urcline |-> SubSeq(s, 1, Len(s) - 1),
                       size |-> Len(s) - 1] >>
    /\ urc_cnt = 0
    /\ urc_item = NO_ITEM

C3_RespWritesInBounds ==
    [][\A c \in Callers :
          /\ rcv_wmax'[c] < rspec[c].bufsize
          /\ (resp = c /\ fed' # fed /\ rcv_cnt + 1 >= rspec[c].bufsize)
                => /\ rcv_cnt' = 1
                   /\ recvbuf'[c] = <<fed'[Len(fed')]>>]_vars

\* The active spec's tokens as the matcher last saw them.
HasToken(c) == StrStr(CStr(recvbuf[c]), rspec[c].matcher)
HasError(c) == StrStr(CStr(recvbuf[c]), ERROR)

\* C8: a buffer holding both the success token and "ERROR" is recorded as
\* Success; ProtocolError is recorded only with "ERROR" present and the
\* success token absent.
C8_SuccessWins ==
    (resp = NULL /\ completed = 1) =>
        /\ HasToken("c1") => ret = AT_RET_OK
        /\ ret = AT_RET_ERROR => (HasError("c1") /\ ~HasToken("c1"))

C8_Witness ==
    /\ resp = NULL
    /\ completed = 1
    /\ HasToken("c1")
    /\ HasError("c1")
    /\ ret = AT_RET_OK

\* C1: the active spec belongs to the caller that holds send_lock and waits
\* in wait_resp, and a byte read from the transport is stored in the
\* receive buffer of at most one command.
C1_OneActiveSpec ==
    /\ resp # NULL => /\ send_holder = resp
                      /\ send_lock = 0
                      /\ pc[resp] \in {"wait", "clr"}
    /\ Cardinality(appended) <= 1

C1_Witness ==
    /\ resp = "c2"
    /\ send_holder = "c2"
    /\ appended = {"c2"}

\* C4: when at_do_work has returned, the worker holds neither send_lock nor
\* recv_lock.
C4_WorkReleasesLocks ==
    pc[Worker] = "idle" => (send_holder # Worker /\ recv_holder # Worker)

C6_PostedExactlyOnce ==
    [][\A c \in Callers :
          (pc[c] = "unbusy" /\ pc'[c] = "idle") => posts[c] = 1]_vars

\* C7: a command during which no byte at all was read from the transport
\* returns Timeout (Aborted, the outcome of a suspended controller, is let
\* through as well).
C7_TimeoutWithoutResponse ==
    [][\A c \in Callers :
          (pc[c] = "rd" /\ pc'[c] = "unbusy" /\ ~win_read) =>
              cret'[c] \in {AT_RET_TIMEOUT, AT_RET_ABORT}]_vars

\* C10: command lines are never mixed on the transport; a caller that gave
\* up on send_lock wrote nothing; a caller writes its line only while it
\* holds send_lock, no spec is active and no other command is between
\* taking and releasing send_lock.
C10_CommandsOrdered ==
    /\ ~tx_mixed
    /\ \A c \in Callers : pc[c] = "timedout" => cput[c] = 0
    /\ \A c \in Callers :
         pc[c] = "put" =>
            /\ send_holder = c
            /\ resp = NULL
            /\ \A d \in Callers \ {c} :
                  pc[d] \in {"idle", "timedout", "unbusy"}

C10_Witness ==
    /\ pc["c2"] = "put"
    /\ cput["c2"] = 1
    /\ pc["c1"] = "unbusy"

\* The labels at which a caller's command line is written and its spec is
\* not yet armed.
Unarmed == {"arm1", "arm2", "arm3"}

\* C11: a byte that at_process reads after a caller wrote its command line
\* and before the command's outcome is offered to that command's matcher:
\* resp_recv_process finds the caller's spec in at->resp.
C11_NoResponseByteDropped ==
    [][\A c \in Callers :
          (/\ pc[Reader] = "r_cap"
           /\ pc'[Reader] # "r_cap"
           /\ rd_chunk # <<>>
           /\ pc[c] \in Unarmed)
          => rd_resp' = c]_vars

\* A caller inside at_do_cmd can go on by itself: one of its steps is
\* enabled, or it waits on the completion signal and the passage of time
\* alone will end the wait.
CanProceedAlone(c) ==
    \/ ENABLED at_do_cmd(c)
    \/ pc[c] = "wait" /\ ENABLED RespTimePass

\* C12: every wait inside at_do_cmd ends by a timeout of its own, whatever
\* the other threads do: a caller that has entered at_do_cmd never depends
\* on a step of at_process to go on.
C12_EveryWaitBounded ==
    \A c \in Callers : pc[c] # "idle" => CanProceedAlone(c)

\* The labels at which at_process reads the transport or runs
\* urc_recv_process and resp_recv_process, and those at which the work
\* function runs.
ReaderInside == {"r_read", "r_cap", "r_eval", "r_ntf1", "r_ntf2", "r_unlock"}
WorkerInside == {"w_work", "w_unlock"}

\* C13: at_process and a work session read the transport and change the
\* URC session only while holding recv_lock, never both at once, and
\* recv_lock is held by at most one of them.
C13_RecvLockExclusive ==
    /\ recv_lock \in {0, 1}
    /\ ~(pc[Reader] \in ReaderInside /\ pc[Worker] \in WorkerInside)
    /\ pc[Reader] \in ReaderInside =>
          recv_lock = 0 /\ recv_holder = Reader
    /\ pc[Worker] \in WorkerInside =>
          recv_lock = 0 /\ recv_holder = Worker

C13_Witness ==
    /\ pc[Reader] = "r_eval"
    /\ pc[Worker] = "w_lock_r"
    /\ urc_cnt > 0

\* C14: the byte resp_recv_process stores is the byte urc_recv_process was
\* given last, whatever urc_recv_process did with it: at_process hands
\* each byte read to the dispatcher first and to the matcher next.
C14_UrcBeforeMatcher ==
    [][(/\ pc[Reader] = "r_eval"
        /\ pc'[Reader] # "r_eval"
        /\ rd_chunk # <<>>)
       => /\ fed # <<>>
          /\ rd_chunk = <<fed[Len(fed)]>>
          /\ rcv_cnt' >= 1
          /\ recvbuf'[rd_resp][rcv_cnt'] = fed[Len(fed)]]_vars

\* The LF ended an unrecognized line in the URC session and was then stored
\* by the matcher.
C14_Witness ==
    /\ fed = <<"K", LF>>
    /\ urc_cnt = 0
    /\ recvbuf["c2"] = <<"K", LF>>
    /\ pc[Reader] = "r_ntf1"

\* A step that ran urc_recv_process: one of at_process or of at_work_read.
UrcStep ==
    \/ pc[Reader] = "r_read" /\ pc'[Reader] = "r_cap"
    \/ pc[Worker] = "w_work" /\ fed' # fed

C16_WorkOnlyUnderBothLocks ==
    [][/\ (pc[Worker] # "w_work" /\ pc'[Worker] = "w_work")
          => /\ pc[Worker] = "w_lock_r"
             /\ send_lock = 0 /\ send_holder = Worker
             /\ recv_lock = 1 /\ recv_lock' = 0 /\ recv_holder' = Worker
       /\ (pc[Worker] # "timedout" /\ pc'[Worker] = "timedout")
          => /\ \/ pc[Worker] = "idle" /\ send_lock = 0
                \/ pc[Worker] = "w_lock_r" /\ recv_lock = 0
             /\ cret'[Worker] = LockFailRet
       /\ pc[Worker] = "timedout" => pc'[Worker] \in {"timedout", "idle"}
       /\ (pc[Worker] = "w_work" /\ pc'[Worker] # "w_work")
          => pc'[Worker] = "w_unlock" /\ cret'[Worker] \in WorkResults
       /\ (pc[Worker] = "w_unlock" /\ pc'[Worker] # "w_unlock")
          => pc'[Worker] = "w_unbusy" /\ cret'[Worker] = cret[Worker]
       /\ (pc[Worker] = "w_unbusy" /\ pc'[Worker] # "w_unbusy")
          => pc'[Worker] = "idle" /\ cret[Worker] \in WorkResults]_vars

\* at_do_work holds send_lock and found recv_lock held by at_process: it is
\* about to return without having run the work function.
C16_Witness ==
    /\ pc[Worker] = "timedout"
    /\ send_holder = Worker
    /\ recv_holder = Reader
    /\ cret[Worker] = AT_RET_TIMEOUT

\* What the last call alone leaves in at->suspend: at_suspend sets it,
\* at_resume clears it, and at_obj_init leaves it clear.
LastCallEffect ==
    sus_log # <<>> /\ sus_log[Len(sus_log)] = "at_suspend"

at_obj_busy(urc_quiet) == ~busy /\ urc_quiet

\* C18: at_obj_busy returns true exactly when the busy flag is set, whatever
\* the time since the last URC byte.
C18_BusyReportsFlag == \A urc_quiet \in BOOLEAN : at_obj_busy(urc_quiet) <=> busy

\* at_sem_wait(at->send_lock, r->timeout): the bound of caller c's wait.
SendLockWait(c) == rspec[c].timeout

\* at_sem_wait(at->completed, r->timeout) in wait_resp and
\* at_istimeout(at->resp_timer, resp->timeout) in resp_recv_process.
RespWait(c) == rspec[c].timeout

LineToOutcome(c) ==
    \/ pc[c] = "put" /\ cput[c] > 0
    \/ pc[c] \in {"arm1", "arm2", "arm3", "wait", "clr", "rd"}

\* C20: from the first byte of its command line until at->resp is cleared
\* the caller holds send_lock, and the only step of at_do_cmd that releases
\* send_lock is the one after wait_resp returned, which releases it once.
C20_SendLockSpansCommand ==
    [][\A c \in Callers :
          /\ LineToOutcome(c)' => send_lock' = 0 /\ send_holder' = c
          /\ (pc'[c] # pc[c] /\ send_lock' # send_lock /\ pc[c] # "idle")
             => /\ pc[c] = "rd" /\ pc'[c] = "unbusy"
                /\ resp # c
                /\ send_lock = 0 /\ send_lock' = 1]_vars

\* One caller waits for its response holding send_lock; the other gave up
\* waiting for the lock.
C20_Witness ==
    /\ pc["c1"] = "wait"
    /\ send_holder = "c1"
    /\ send_lock = 0
    /\ pc["c2"] = "timedout"

\* C21: the step in which a caller's put_line writes the first part of its
\* command line starts with no URC byte buffered.
C21_LineStartsWithNoUrc ==
    [][\A c \in Callers :
          (pc[c] = "put" /\ cput[c] = 0 /\ cput'[c] > 0) => urc_cnt = 0]_vars

\* The byte a step handed to urc_recv_process while an entry was matched and
\* the idle timeout had not expired.
FedToMatched(ch) ==
    /\ urc_item # NO_ITEM
    /\ ~urc_expired
    /\ fed' = Append(fed, ch)

Dispatched == Len(urc_calls') = Len(urc_calls) + 1

\* C22: with an entry matched, a byte dispatches the handler exactly when it
\* is one of that entry's configured end marks; a generic end mark, NUL
\* included, that is not one of them leaves the session accumulating with
\* the same entry matched.
C22_DispatchOnOwnEndMark ==
    [][\A ch \in UrcAlphabet :
          FedToMatched(ch)
          => /\ Dispatched <=> ch \in urc_tbl[urc_item].end_mark
             /\ (ch \in SPEC_URC_END_MARKS \cup {NUL}
                 /\ ch \notin urc_tbl[urc_item].end_mark)
                => /\ urc_cnt' = urc_cnt + 1
                   /\ urc_item' = urc_item]_vars

\* The prefix p occurs in the text s.
Occurs(p, s) == \E i \in 1..(Len(s) - Len(p) + 1) : SubSeq(s, i, i + Len(p) - 1) = p

\* The lowest-index entry whose prefix occurs in s, none below 2 bytes.
LowestEntry(s) ==
    LET E == {e \in 1..urc_tbl_count : Occurs(urc_tbl[e].prefix, s)}
    IN  IF Len(s) < 2 \/ E = {} THEN NO_ITEM
        ELSE CHOOSE e \in E : \A f \in E : e <= f

\* The entry a step of urc_recv_process selected: the one it dispatched, or
\* else the one it left matched.
SelectedEntry ==
    IF Dispatched THEN urc_calls'[Len(urc_calls')].item ELSE urc_item'

\* C23: an end-mark byte that arrives with no entry matched selects the
\* lowest-index entry whose prefix occurs in the buffered text, that byte
\* included, and none when fewer than 2 bytes are buffered.
C23_LowestIndexEntry ==
    [][\A ch \in SPEC_URC_END_MARKS \cup {NUL} :
          (urc_item = NO_ITEM /\ ~urc_expired /\ fed' = Append(fed, ch))
          => SelectedEntry = LowestEntry(Append(SubSeq(urc_buf, 1, urc_cnt), ch))]_vars

\* The text ",+C" CR holds the prefix of the third entry before that of the
\* first; the first entry was dispatched.
C23_Witness ==
    /\ fed = <<",", "+", "C", CR>>
    /\ urc_tmo = 0
    /\ Len(urc_calls) = 1
    /\ urc_calls[1].item = 1
    /\ urc_calls[1].urcline = <<",", "+", "C", CR>>

\* The bytes a step handed to urc_recv_process.
NewBytes == SubSeq(fed', Len(fed) + 1, Len(fed'))

\* A step that ran urc_recv_process on a session holding bytes, with more
\* than the idle timeout passed since the last of them.
StaleStep ==
    /\ urc_cnt > 0
    /\ urc_expired
    /\ urcVars' # urcVars

\* C24: a call of urc_recv_process on a session that holds bytes and has
\* been idle for longer than the timeout drops them first: what the session
\* holds afterwards is an end of the new bytes alone, an entry is matched
\* only from them, and every handler call made is on new bytes alone.
C24_StaleSessionReset ==
    [][StaleStep
       => /\ urc_tmo' = urc_tmo + 1
          /\ urc_cnt' <= Len(NewBytes)
          /\ SubSeq(urc_buf', 1, urc_cnt')
                = SubSeq(NewBytes, Len(NewBytes) - urc_cnt' + 1, Len(NewBytes))
          /\ NewBytes = <<>> => urc_item' = NO_ITEM
          /\ urc_item' # NO_ITEM
                => Occurs(urc_tbl[urc_item'].prefix, NewBytes)
          /\ \A i \in (Len(urc_calls) + 1)..Len(urc_calls') :
                urc_calls'[i].size <= Len(NewBytes)]_vars

\* "+C," had matched the first entry; after the idle timeout the byte C
\* arrived and is alone in the session, with no entry matched.
C24_Witness ==
    /\ fed = <<"+", "C", ",", "C">>
    /\ urc_tmo = 1
    /\ urc_cnt = 1
    /\ urc_buf = <<"C">>
    /\ urc_item = NO_ITEM
    /\ urc_calls = <<>>

\* The text in the session once the byte ch is stored.
WithByte(ch) == Append(SubSeq(urc_buf, 1, urc_cnt), ch)

\* C25: a CR, LF or NUL that arrives with no entry matched, and with no
\* prefix of the table in the buffered text, resets the session to Idle and
\* calls no handler; the text is logged exactly when more than 2 bytes, the
\* terminator among them, are buffered and at->busy is clear.
C25_UnrecognizedLineReset ==
    [][\A ch \in {CR, LF, NUL} :
          (/\ fed' = Append(fed, ch)
           /\ ~urc_expired
           /\ urc_item = NO_ITEM
           /\ LowestEntry(WithByte(ch)) = NO_ITEM)
          => /\ urc_cnt' = 0
             /\ urc_item' = NO_ITEM
             /\ urc_calls' = urc_calls
             /\ urc_logs' = IF Len(WithByte(ch)) > 2 /\ ~busy
                            THEN urc_logs + 1 ELSE urc_logs]_vars

\* The line "CC" LF matched no entry and arrived while at->busy was set: it
\* was dropped without a log line and without a handler call.
C25_Witness ==
    /\ fed = <<"C", "C", LF>>
    /\ urc_tmo = 0
    /\ urc_logs = 0
    /\ urc_cnt = 0
    /\ urc_item = NO_ITEM
    /\ urc_calls = <<>>

\* A step in which resp_recv_process ran on the active spec: a byte was fed
\* or an empty read was evaluated.
MatcherStep ==
    /\ resp # NULL
    /\ suspend' = suspend
    /\ resp_expired' = resp_expired
    /\ ncalls' = ncalls

Notified(r) ==
    /\ ret' = r
    /\ resp' = NULL
    /\ completed' = completed + 1

\* C26: an evaluation of the matcher whose buffer then holds neither the
\* token nor "ERROR" records Timeout if the spec's timeout has passed, else
\* Aborted if suspend is set, else nothing, the spec staying active; a token
\* in the buffer after a byte was stored decides before both.
C26_ExpiryAfterTokens ==
    [][\A c \in Callers : (MatcherStep /\ resp = c) =>
          /\ (~HasToken(c)' /\ ~HasError(c)')
             => /\ resp_expired => Notified(AT_RET_TIMEOUT)
                /\ (~resp_expired /\ suspend) => Notified(AT_RET_ABORT)
                /\ (~resp_expired /\ ~suspend)
                   => UNCHANGED <<ret, resp, completed>>
          /\ (fed' # fed /\ HasToken(c)') => Notified(AT_RET_OK)
          /\ (fed' # fed /\ ~HasToken(c)' /\ HasError(c)')
             => Notified(AT_RET_ERROR)]_vars

\* Bytes without a token arrived, the controller was suspended, and the
\* matcher recorded Aborted.
C26_Witness ==
    /\ ret = AT_RET_ABORT
    /\ resp = NULL
    /\ completed = 1
    /\ suspend
    /\ ~resp_expired
    /\ rcv_cnt >= 2
    /\ ~HasToken("c1") /\ ~HasError("c1")


WorkReadStep == pc[Worker] = "w_work" /\ rx' # rx /\ pc'[Reader] = pc[Reader]

\* The bytes the transport gave in this step.
Taken == SubSeq(rx, 1, Len(rx) - Len(rx'))

\* C28: a read made inside a work session hands the bytes the transport gave
\* to the URC dispatcher, returns exactly those bytes with their count to the
\* work function, and leaves the response matcher alone: no byte is stored
\* in a response buffer, no outcome is recorded, no completion is posted.
C28_WorkReadFeedsUrcOnly ==
    [][WorkReadStep
          => /\ rx = Taken \o rx'
             /\ fed' = fed \o Taken
             /\ UrcState' = urc_recv_process(UrcState, Taken, urc_expired, busy)
             /\ w_buf' = Taken
             /\ w_len' = Len(Taken)
             /\ UNCHANGED <<respVars, completed, posts, rd_ret, appended>>]_vars

C28_Witness ==
    /\ pc[Worker] = "w_work"
    /\ w_buf = <<"K", LF>>
    /\ w_len = 2
    /\ urc_cnt = 0
    /\ fed = <<"K", LF>>


\* The verdict the bytes read so far call for: the expected substring first,
\* then the failure token.
WaitVerdict(bytes) ==
    IF Occurs(WaitExpected, bytes) THEN AT_RET_OK
    ELSE IF Occurs(ERROR, bytes) THEN AT_RET_ERROR
    ELSE AT_RET_TIMEOUT

\* C29: wait_recv returns OK as soon as the bytes read so far contain the
\* expected substring, ERROR if they contain "ERROR" and not the expected
\* substring, and Timeout otherwise, and then only once the timeout has
\* passed; it never fails to return.
C29_WaitRecvVerdict ==
    /\ wait_pc = "loop" => WaitVerdict(wait_buf) = AT_RET_TIMEOUT
    /\ wait_pc = "done" => /\ wait_ret = WaitVerdict(wait_buf)
                           /\ wait_ret = AT_RET_TIMEOUT => wait_expired
    /\ wait_pc # "lost"


\* The places of the separator sep in the buffer s, in order.
RECURSIVE SeparatorsFrom(_, _, _)
SeparatorsFrom(s, sep, i) ==
    IF i > Len(s) THEN <<>>
    ELSE IF s[i] = sep THEN <<i>> \o SeparatorsFrom(s, sep, i + 1)
    ELSE SeparatorsFrom(s, sep, i + 1)

\* C30: at_split_respond_lines returns 0 for a null buffer or a null array;
\* otherwise it returns the number of fields stored, never more than count:
\* field 0 starts at the beginning of the buffer, field i+1 right after the
\* i-th occurrence of the separator given, every separator in front of a
\* stored field is replaced by NUL, and the buffer is split at each
\* occurrence as far as count allows.
C30_SplitAtSeparator ==
    split_res # <<>> =>
        LET a == split_arg[1]
            r == split_res[1]
        IN  IF a.recvbuf = <<>> \/ a.lines = <<>>
            THEN r.ret = 0
            ELSE LET seps == SeparatorsFrom(a.recvbuf[1], a.separator, 1)
                     want == IF Len(seps) + 1 <= a.count
                             THEN Len(seps) + 1 ELSE a.count
                 IN  /\ r.ret <= a.count
                     /\ r.ret = want
                     /\ r.ret = Len(r.lines)
                     /\ r.ret >= 1 => r.lines[1] = 1
                     /\ \A i \in 1..(r.ret - 1) :
                           /\ r.lines[i + 1] = seps[i] + 1
                           /\ r.recvbuf[seps[i]] = NUL


\* Thread t has taken send_lock, has passed its at->busy = true, and has not
\* yet posted send_lock: its command or work session is in flight.  (A work
\* session waiting for recv_lock, or given up on it, has not set the flag.)
InFlight(t) == send_holder = t /\ pc[t] \notin {"idle", "w_lock_r", "timedout"}

\* C31: the busy flag is set in every state in which a command or a work
\* session is in flight; the at->busy = false of a caller that has already
\* posted send_lock never clears it under the next holder.
C31_BusyWhileInFlight ==
    \A t \in Callers \cup {Worker} : InFlight(t) => busy


\* C32: the completion signal is pending only while the command it was
\* posted for waits for it: the semaphore count never exceeds 1, and a
\* count of 1 finds a caller inside at_sem_wait(at->completed, ...); so no
\* signal is left over for a later at_do_cmd to wake on.
C32_NoStaleSignal ==
    /\ completed <= 1
    /\ completed = 1 => \E c \in Callers : pc[c] = "wait"


\* C33: while the bytes read hold neither the expected substring nor
\* "ERROR", wait_recv keeps cnt below sizeof(buf), so that buf[cnt] = '\0'
\* stays inside buf and the next read asks for at least one byte.
C33_WaitBufInBounds ==
    (/\ wait_pc # "idle"
     /\ ~Occurs(WaitExpected, wait_buf)
     /\ ~Occurs(ERROR, wait_buf))
        => /\ ~wait_smashed
           /\ Len(wait_buf) <= WaitBufSize - 1
           /\ WaitBufSize - Len(wait_buf) >= 1

====
